---- MODULE Spec2Model ----
(***************************************************************************)
(* A model of the driveMybox API client of lwoiton/aihack25.               *)
(*                                                                         *)
(* Two client classes exist: src/src/api/dMB.py (the full client, called   *)
(* the "src" variant here; its ISO code check is the loose one) and        *)
(* src/app/api/dMB_client.py (the quotation-only client, the "app"         *)
(* variant; its ISO code check is the strict one).                         *)
(*                                                                         *)
(* Python values are dynamically typed, so the model tags them:            *)
(*   None -> Null, int -> Num(n), str -> Str(s), bool -> Bool(b),          *)
(*   list -> List(<<...>>), dict -> a function with string keys.           *)
(* A key that is absent from a dict is absent from the function's DOMAIN.  *)
(***************************************************************************)
EXTENDS Integers, Sequences, FiniteSets, TLC

VARIABLES
    variant,    \* which class the client instance is: "src" or "app"
    customer_id,\* self.customer_id, set at construction
    last_etag,  \* self.last_etag; Null while the attribute was never set
    pc,         \* position of the current call: "idle", "called", "waiting", "done"
    call,       \* the operation invoked and its arguments
    sent,       \* the HTTP requests issued by the current call, in order
    response,   \* what requests.request produced for the current call
    outcome     \* how the current call ended

vars == <<variant, customer_id, last_etag, pc, call, sent, response, outcome>>

(***************************************************************************)
(* Python values                                                           *)
(***************************************************************************)
Null == [null |-> TRUE]

Num(n) == [num |-> n]

Str(s) == [str |-> s]

Bool(b) == [bool |-> b]

List(l) == [list |-> l]

EmptyDict == <<>>

IsNull(v) == DOMAIN v = {"null"}

IsNum(v) == DOMAIN v = {"num"}

IsStr(v) == DOMAIN v = {"str"}

IsBool(v) == DOMAIN v = {"bool"}

IsList(v) == DOMAIN v = {"list"}

IsDict(v) == ~(IsNull(v) \/ IsNum(v) \/ IsStr(v) \/ IsBool(v) \/ IsList(v))

\* Python truth value testing: None, 0, "", False, [] and {} are false.
Truthy(v) ==
    IF IsNull(v) THEN FALSE
    ELSE IF IsNum(v) THEN v.num # 0
    ELSE IF IsStr(v) THEN v.str # ""
    ELSE IF IsBool(v) THEN v.bool
    ELSE IF IsList(v) THEN Len(v.list) > 0
    ELSE DOMAIN v # {}

\* len(v) is defined for str, list and dict; it raises TypeError otherwise.
HasLen(v) == IsStr(v) \/ IsList(v) \/ IsDict(v)

PyLen(v) ==
    IF IsStr(v) THEN Len(v.str)
    ELSE IF IsList(v) THEN Len(v.list)
    ELSE Cardinality(DOMAIN v)

\* "key in v" is defined for dict (a key) and list (an element); it raises
\* TypeError for None, int and bool.
IsContainer(v) == IsList(v) \/ IsDict(v)

Contains(v, key) ==
    IF IsList(v) THEN \E i \in 1..Len(v.list) : v.list[i] = Str(key)
    ELSE key \in DOMAIN v

\* "v < 0" is defined for int; it raises TypeError for None and str.
Orderable(v) == IsNum(v)

(***************************************************************************)
(* How a validator ends: it returns True, raises ValueError with a         *)
(* message, or lets a TypeError of the interpreter escape.                 *)
(***************************************************************************)
Ok == [kind |-> "ok"]

ValueError(m) == [kind |-> "ValueError", msg |-> m]

TypeError == [kind |-> "TypeError"]

\* Statement sequencing: the second statement runs only if the first did
\* not raise.
Then(r1, r2) == IF r1.kind = "ok" THEN r2 ELSE r1

(***************************************************************************)
(* Enumerations                                                            *)
(***************************************************************************)
TransportCategory == {"IMPORT", "EXPORT", "EMPTY_PICKUP", "EMPTY_RETURN", "ROUND_TRIP"}

LoadStatus == {"EMPTY", "FULL"}

LoadingPointType ==
    {"WAREHOUSE", "WEIGHING_STATION", "SEAPORT_TERMINAL", "RAILWAY_TERMINAL",
     "CUSTOMS_OFFICE", "CONTAINER_DEPOT", "VETERINARY_OFFICE"}

ContainerServiceType ==
    {"ACTIVE_COOLING", "CUSTOMS_CLEARANCE", "EXPORT_CUSTOMS", "IMPORT_CUSTOMS",
     "VETERINARY_CONTROL", "VET_STOP", "EXTRA_STORAGE_DAY_20", "EXTRA_STORAGE_DAY_40",
     "HANDLING_DEPOT", "CUSTODIAN_CHANGE", "CHANGE_FEE_1", "CHANGE_FEE_2",
     "CHANGE_FEE_3", "CHANGE_FEE_4", "CHANGE_FEE_5", "CHASSIS_RENTAL"}

\* Enum(value) of a str-valued Enum: the member, or ValueError.
IsEnumValue(enum, v) == IsStr(v) /\ v.str \in enum

(***************************************************************************)
(* Field validators                                                        *)
(***************************************************************************)
MaxJobOrderRefLen == 128

ContainerNumberLen == 11

MaxIsoCodeLen == 4

MaxNetWeight == 35000

validate_job_order_ref(job_order_ref) ==
    IF ~Truthy(job_order_ref)
    THEN ValueError("Job order reference must be between 1 and 128 characters")
    ELSE IF ~HasLen(job_order_ref) THEN TypeError
    ELSE IF PyLen(job_order_ref) > MaxJobOrderRefLen
    THEN ValueError("Job order reference must be between 1 and 128 characters")
    ELSE Ok

validate_container_number(container_number) ==
    IF ~Truthy(container_number)
    THEN ValueError("Container number must be exactly 11 characters")
    ELSE IF ~HasLen(container_number) THEN TypeError
    ELSE IF PyLen(container_number) # ContainerNumberLen
    THEN ValueError("Container number must be exactly 11 characters")
    ELSE Ok

\* Mutant of ISO_CODES: one more code in the list.
ISO_CODES_one_more ==
    <<"22B0", "22G1", "22R1", "22TD", "22TG", "22TN", "22U1", "22U6", "22V0",
      "25G1", "25R1", "25U1", "25U6", "2CG1", "42B0", "42G1", "42R1", "42TD",
      "42TG", "42TN", "42U1", "42U6", "42V0", "45G1", "45R1", "45U1", "45U6",
      "4CG1", "4EG1", "L5G1", "L5R1", "LEG1", "22P1">>

\* The list literal of the app variant's _validate_iso_code, in its order.
ISO_CODES ==
    <<"22B0", "22G1", "22R1", "22TD", "22TG", "22TN", "22U1", "22U6", "22V0",
      "25G1", "25R1", "25U1", "25U6", "2CG1", "42B0", "42G1", "42R1", "42TD",
      "42TG", "42TN", "42U1", "42U6", "42V0", "45G1", "45R1", "45U1", "45U6",
      "4CG1", "4EG1", "L5G1", "L5R1", "LEG1">>

PermittedIsoCodes == {ISO_CODES[i] : i \in 1..Len(ISO_CODES)}

\* "iso_code not in [...]": list membership compares by equality, and a
\* value that is no str equals none of the codes.
InIsoList(iso_code) == IsStr(iso_code) /\ iso_code.str \in PermittedIsoCodes

\* Mutant of validate_iso_code: the allow-list check is left out.
validate_iso_code_no_allow_list(v, iso_code) ==
    IF ~Truthy(iso_code) THEN ValueError("ISO code must be at most 4 characters")
    ELSE IF ~HasLen(iso_code) THEN TypeError
    ELSE IF PyLen(iso_code) > MaxIsoCodeLen
    THEN ValueError("ISO code must be at most 4 characters")
    ELSE Ok

validate_iso_code(v, iso_code) ==
    IF ~Truthy(iso_code) THEN ValueError("ISO code must be at most 4 characters")
    ELSE IF ~HasLen(iso_code) THEN TypeError
    ELSE IF PyLen(iso_code) > MaxIsoCodeLen
    THEN ValueError("ISO code must be at most 4 characters")
    ELSE IF v = "app" /\ ~InIsoList(iso_code)
    THEN ValueError("ISO type code not supported")
    ELSE Ok

validate_weight(weight) ==
    IF ~Orderable(weight) THEN TypeError
    ELSE IF weight.num < 0 THEN ValueError("Weight cannot be negative")
    ELSE Ok

\* Mutant of validate_net_weight: the upper bound is exclusive.
validate_net_weight_exclusive(weight) ==
    IF ~Orderable(weight) THEN TypeError
    ELSE IF weight.num < 0 \/ weight.num >= MaxNetWeight
    THEN ValueError("Net weight must be between 0 and 35000 kg")
    ELSE Ok

validate_net_weight(weight) ==
    IF ~Orderable(weight) THEN TypeError
    ELSE IF weight.num < 0 \/ weight.num > MaxNetWeight
    THEN ValueError("Net weight must be between 0 and 35000 kg")
    ELSE Ok

validate_address(address) ==
    IF ~IsContainer(address) THEN TypeError   \* 'geo_coordinates' in None
    ELSE IF IsDict(address) /\ Contains(address, "geo_coordinates")
            /\ ~IsContainer(address.geo_coordinates)
    THEN TypeError   \* 'latitude' in <a value that is no container>
    ELSE
      LET has_geo == /\ IsDict(address)
                     /\ Contains(address, "geo_coordinates")
                     /\ Contains(address.geo_coordinates, "latitude")
                     /\ Contains(address.geo_coordinates, "longitude")
          has_address_fields ==
              \A key \in {"city", "country", "postal_code"} : Contains(address, key)
      IN  IF ~(has_geo \/ has_address_fields)
          THEN ValueError("Address must contain either geographic coordinates or city, country, and postal code")
          ELSE Ok

\* datetime.fromisoformat(dt_str.replace('Z', '+00:00')) is library code: the
\* model tabulates its verdict on the strings it draws.
IsoFormatStrings == {"2025-05-01T12:30:25Z", "2021-01-31T12:30:25+01:00", "2025-05-01"}

validate_date_time(dt_str) ==
    IF ~IsStr(dt_str) THEN TypeError   \* AttributeError: no method replace
    ELSE IF dt_str.str \in IsoFormatStrings THEN Ok
    ELSE ValueError("Datetime must be in RFC 3339 format (e.g., 2021-01-31T12:30:25Z)")

(***************************************************************************)
(* Document validators                                                     *)
(***************************************************************************)
\* One pass of the loop over route_loading_points, up to the provision
\* location count.
validate_loading_point(point) ==
    IF ~Contains(point, "type") THEN ValueError("Loading point must specify a type")
    ELSE IF ~IsEnumValue(LoadingPointType, point.type)
    THEN ValueError("Invalid loading point type")
    ELSE IF ~Contains(point, "sequence_number")
    THEN ValueError("Loading point must specify a sequence number")
    ELSE IF ~Orderable(point.sequence_number) THEN TypeError
    ELSE IF point.sequence_number.num < 0
    THEN ValueError("Loading point sequence number must be non-negative")
    ELSE IF ~Contains(point, "address")
    THEN ValueError("Loading point must specify an address")
    ELSE validate_address(point.address)

IsProvisionLocation(point) ==
    Contains(point, "provision_location") /\ Truthy(point.provision_location)

\* The loop over the loading points from index i on, with the count so far:
\* the first error, or ok with the final count.
RECURSIVE validate_loading_points(_, _, _)
validate_loading_points(points, i, provision_locations) ==
    IF i > Len(points) THEN [kind |-> "ok", count |-> provision_locations]
    ELSE LET r == validate_loading_point(points[i])
         IN  IF r.kind # "ok" THEN r
             ELSE validate_loading_points(points, i + 1,
                      IF IsProvisionLocation(points[i])
                      THEN provision_locations + 1 ELSE provision_locations)

\* Mutant of validate_route: the count is compared with 2.
validate_route_two_allowed(quotation_data) ==
    IF ~Contains(quotation_data, "route")
    THEN ValueError("Quotation data must contain a 'route' field")
    ELSE IF \/ ~Contains(quotation_data.route, "route_loading_points")
            \/ ~Truthy(quotation_data.route.route_loading_points)
    THEN ValueError("Route must contain at least one loading point")
    ELSE LET r == validate_loading_points(quotation_data.route.route_loading_points.list, 1, 0)
         IN  IF r.kind # "ok" THEN r
             ELSE IF r.count > 2
             THEN ValueError("Route can have at most one provision location")
             ELSE Ok

\* The route half of _validate_quotation_data.
validate_route(quotation_data) ==
    IF ~Contains(quotation_data, "route")
    THEN ValueError("Quotation data must contain a 'route' field")
    ELSE IF \/ ~Contains(quotation_data.route, "route_loading_points")
            \/ ~Truthy(quotation_data.route.route_loading_points)
    THEN ValueError("Route must contain at least one loading point")
    ELSE LET r == validate_loading_points(quotation_data.route.route_loading_points.list, 1, 0)
         IN  IF r.kind # "ok" THEN r
             ELSE IF r.count > 1
             THEN ValueError("Route can have at most one provision location")
             ELSE Ok

\* Mutant of validate_quotation_container: the loose variant does not look
\* at the type code's value.
validate_quotation_container_loose_any_code(v, container) ==
    IF ~Contains(container, "sequence_number")
    THEN ValueError("Container must specify a sequence number")
    ELSE IF ~Orderable(container.sequence_number) THEN TypeError
    ELSE IF container.sequence_number.num < 0
    THEN ValueError("Container sequence number must be non-negative")
    ELSE IF ~Contains(container, "type_code")
    THEN ValueError("Container must specify a type code")
    ELSE Then(IF v = "app" THEN validate_iso_code(v, container.type_code) ELSE Ok,
         IF ~Contains(container, "provision_at")
         THEN ValueError("Container must specify a provision date")
         ELSE validate_date_time(container.provision_at))

\* One pass of the loop over the containers of a quotation.
validate_quotation_container(v, container) ==
    IF ~Contains(container, "sequence_number")
    THEN ValueError("Container must specify a sequence number")
    ELSE IF ~Orderable(container.sequence_number) THEN TypeError
    ELSE IF container.sequence_number.num < 0
    THEN ValueError("Container sequence number must be non-negative")
    ELSE IF ~Contains(container, "type_code")
    THEN ValueError("Container must specify a type code")
    ELSE Then(validate_iso_code(v, container.type_code),
         IF ~Contains(container, "provision_at")
         THEN ValueError("Container must specify a provision date")
         ELSE validate_date_time(container.provision_at))

RECURSIVE validate_quotation_containers(_, _, _)
validate_quotation_containers(v, containers, i) ==
    IF i > Len(containers) THEN Ok
    ELSE Then(validate_quotation_container(v, containers[i]),
              validate_quotation_containers(v, containers, i + 1))

validate_quotation_data(v, quotation_data) ==
    Then(validate_route(quotation_data),
         IF ~Contains(quotation_data, "containers") \/ ~Truthy(quotation_data.containers)
         THEN ValueError("Quotation must contain at least one container")
         ELSE validate_quotation_containers(v, quotation_data.containers.list, 1))

\* One pass of the loop over the services of a booking container.
validate_service(service) ==
    IF ~Contains(service, "type") THEN ValueError("Container service must specify a type")
    ELSE IF ~IsEnumValue(ContainerServiceType, service.type)
    THEN ValueError("Invalid container service type")
    ELSE IF /\ Contains(service, "quantity")
            /\ \/ ~(IsNum(service.quantity) \/ IsBool(service.quantity))
               \/ (IsNum(service.quantity) /\ service.quantity.num <= 0)
               \/ (IsBool(service.quantity) /\ ~service.quantity.bool)
    THEN ValueError("Container service quantity must be a positive integer")
    ELSE Ok

RECURSIVE validate_services(_, _)
validate_services(services, i) ==
    IF i > Len(services) THEN Ok
    ELSE Then(validate_service(services[i]), validate_services(services, i + 1))

\* Mutant of validate_container_data: the weights are not validated.
validate_container_data_without_weights(container) ==
    IF ~Contains(container, "sequence_number")
    THEN ValueError("Container must specify sequence_number")
    ELSE IF ~Contains(container, "type_code")
    THEN ValueError("Container must specify type_code")
    ELSE IF ~Orderable(container.sequence_number) THEN TypeError
    ELSE IF container.sequence_number.num < 0
    THEN ValueError("Container sequence number must be non-negative")
    ELSE
      Then(validate_iso_code("src", container.type_code),
      Then(IF Contains(container, "provision_at")
           THEN validate_date_time(container.provision_at) ELSE Ok,
           IF Contains(container, "services") /\ Truthy(container.services)
           THEN validate_services(container.services.list, 1) ELSE Ok))

validate_container_data(container) ==
    IF ~Contains(container, "sequence_number")
    THEN ValueError("Container must specify sequence_number")
    ELSE IF ~Contains(container, "type_code")
    THEN ValueError("Container must specify type_code")
    ELSE IF ~Orderable(container.sequence_number) THEN TypeError
    ELSE IF container.sequence_number.num < 0
    THEN ValueError("Container sequence number must be non-negative")
    ELSE
      Then(validate_iso_code("src", container.type_code),
      Then(IF Contains(container, "provision_at")
           THEN validate_date_time(container.provision_at) ELSE Ok,
      Then(IF Contains(container, "assumed_net_weight")
           THEN validate_net_weight(container.assumed_net_weight) ELSE Ok,
      Then(IF Contains(container, "assumed_tara")
           THEN validate_weight(container.assumed_tara) ELSE Ok,
           IF Contains(container, "services") /\ Truthy(container.services)
           THEN validate_services(container.services.list, 1) ELSE Ok))))

RECURSIVE validate_containers(_, _)
validate_containers(containers, i) ==
    IF i > Len(containers) THEN Ok
    ELSE Then(validate_container_data(containers[i]),
              validate_containers(containers, i + 1))

\* Mutant of validate_booking_data: the load status is not compared with
\* the enumeration.
validate_booking_data_any_load_status(booking_data) ==
    IF ~Contains(booking_data, "booking")
    THEN ValueError("Booking data must contain a 'booking' field")
    ELSE IF ~IsContainer(booking_data.booking) THEN TypeError
    ELSE IF ~Contains(booking_data.booking, "transport_category")
    THEN ValueError("Booking must specify a transport category")
    ELSE IF ~IsEnumValue(TransportCategory, booking_data.booking.transport_category)
    THEN ValueError("Invalid transport category")
    ELSE IF ~Contains(booking_data.booking, "load_status")
    THEN ValueError("Booking must specify a load status")
    ELSE IF ~Contains(booking_data, "containers") \/ ~Truthy(booking_data.containers)
    THEN ValueError("Booking must contain at least one container")
    ELSE validate_containers(booking_data.containers.list, 1)

validate_booking_data(booking_data) ==
    IF ~Contains(booking_data, "booking")
    THEN ValueError("Booking data must contain a 'booking' field")
    ELSE IF ~IsContainer(booking_data.booking) THEN TypeError
    ELSE IF ~Contains(booking_data.booking, "transport_category")
    THEN ValueError("Booking must specify a transport category")
    ELSE IF ~IsEnumValue(TransportCategory, booking_data.booking.transport_category)
    THEN ValueError("Invalid transport category")
    ELSE IF ~Contains(booking_data.booking, "load_status")
    THEN ValueError("Booking must specify a load status")
    ELSE IF ~IsEnumValue(LoadStatus, booking_data.booking.load_status)
    THEN ValueError("Invalid load status")
    ELSE IF ~Contains(booking_data, "containers") \/ ~Truthy(booking_data.containers)
    THEN ValueError("Booking must contain at least one container")
    ELSE validate_containers(booking_data.containers.list, 1)

(***************************************************************************)
(* Inputs.  A document is drawn as the union (@@) of one option per field; *)
(* the option <<>> leaves the field out.                                   *)
(***************************************************************************)
MaxPoints == 3

MaxContainers == 2

WeightMargin == 2

\* All sequences over S of length lo..hi.
SeqsOf(S, lo, hi) == UNION {[1..n -> S] : n \in lo..hi}

PostalFields ==
    [city |-> Str("Musterstadt"), country |-> Str("Germany"),
     postal_code |-> Str("12345"), discriminator |-> Str("ExtendedAddress")]

GeoOptions ==
    {<<>>,
     [geo_coordinates |-> Null],
     [geo_coordinates |-> Num(53)],
     [geo_coordinates |-> EmptyDict],
     [geo_coordinates |-> [latitude |-> Num(53)]],
     [geo_coordinates |-> [longitude |-> Num(10)]],
     [geo_coordinates |-> [latitude |-> Num(53), longitude |-> Num(10)]]}

\* Every address over the optional fields.
Addresses ==
    {[k \in K |-> PostalFields[k]] @@ g : K \in SUBSET DOMAIN PostalFields, g \in GeoOptions}

PostalAddress ==
    [city |-> Str("Musterstadt"), country |-> Str("Germany"), postal_code |-> Str("12345")]

GoodType == [type |-> Str("WAREHOUSE")]

GoodSeq == [sequence_number |-> Num(1)]

GoodAddress == [address |-> PostalAddress]

TypeOptions == {GoodType, <<>>, [type |-> Str("GARAGE")]}

SeqOptions ==
    {GoodSeq, <<>>, [sequence_number |-> Num(0 - 1)], [sequence_number |-> Str("1")]}

AddressOptions ==
    {GoodAddress, <<>>,
     [address |-> [geo_coordinates |-> [latitude |-> Num(53), longitude |-> Num(10)]]],
     [address |-> [city |-> Str("Musterstadt"), country |-> Str("Germany")]],
     [address |-> PostalAddress @@ [geo_coordinates |-> Null]]}

FlagOptions ==
    {<<>>, [provision_location |-> Bool(TRUE)], [provision_location |-> Bool(FALSE)]}

\* Loading points: the good point under every provision_location option,
\* and the flagged point with one of type, sequence number and address
\* replaced.
LoadingPoints ==
    {GoodType @@ GoodSeq @@ GoodAddress @@ f : f \in FlagOptions}
    \cup {t @@ GoodSeq @@ GoodAddress @@ [provision_location |-> Bool(TRUE)] :
              t \in TypeOptions}
    \cup {GoodType @@ q @@ GoodAddress @@ [provision_location |-> Bool(TRUE)] :
              q \in SeqOptions}
    \cup {GoodType @@ GoodSeq @@ a @@ [provision_location |-> Bool(TRUE)] :
              a \in AddressOptions}

GoodCode == [type_code |-> Str("22G1")]

GoodProvisionAt == [provision_at |-> Str("2025-05-01T12:30:25Z")]

CodeOptions ==
    {GoodCode, <<>>, [type_code |-> Str("")], [type_code |-> Str("ZZZZ")],
     [type_code |-> Str("22G1X")], [type_code |-> Num(22)]}

ProvisionAtOptions == {GoodProvisionAt, <<>>, [provision_at |-> Str("tomorrow")]}

WeightOptions ==
    {<<>>,
     [assumed_net_weight |-> Num(18000), assumed_tara |-> Num(18000)],
     [assumed_net_weight |-> Num(35001)]}

\* Containers of a quotation: the good container under every weight
\* option, and the container with one of sequence number, type code and
\* provision date replaced.
QuotationContainers ==
    {GoodSeq @@ GoodCode @@ GoodProvisionAt @@ w : w \in WeightOptions}
    \cup {q @@ GoodCode @@ GoodProvisionAt : q \in SeqOptions}
    \cup {GoodSeq @@ c @@ GoodProvisionAt : c \in CodeOptions}
    \cup {GoodSeq @@ GoodCode @@ p : p \in ProvisionAtOptions}

GoodPoint == GoodType @@ GoodSeq @@ GoodAddress @@ [provision_location |-> Bool(TRUE)]

GoodContainer == GoodSeq @@ GoodCode @@ GoodProvisionAt

GoodRoute == [route |-> [route_loading_points |-> List(<<GoodPoint>>)]]

GoodContainers == [containers |-> List(<<GoodContainer>>)]

\* Loading points of the routes with two or more points: the good point
\* under every provision_location option, and the flagged point with an
\* unrecognized type, a negative or non-numeric sequence number, no
\* address, an incomplete address or an address whose geo_coordinates is
\* None.
RoutePoints ==
    {GoodType @@ GoodSeq @@ GoodAddress @@ f : f \in FlagOptions}
    \cup {[type |-> Str("GARAGE")] @@ GoodSeq @@ GoodAddress
              @@ [provision_location |-> Bool(TRUE)]}
    \cup {GoodType @@ q @@ GoodAddress @@ [provision_location |-> Bool(TRUE)] :
              q \in {[sequence_number |-> Num(0 - 1)], [sequence_number |-> Str("1")]}}
    \cup {GoodType @@ GoodSeq @@ a @@ [provision_location |-> Bool(TRUE)] :
              a \in {<<>>,
                     [address |-> [city |-> Str("Musterstadt"), country |-> Str("Germany")]],
                     [address |-> PostalAddress @@ [geo_coordinates |-> Null]]}}

\* The route options with at most n loading points.
RoutesUpTo(n) ==
    {<<>>, [route |-> EmptyDict]}
    \cup {[route |-> [route_loading_points |-> List(ps)]] :
             ps \in SeqsOf(LoadingPoints, 0, 1) \cup SeqsOf(RoutePoints, 2, n)}

RouteOptions == RoutesUpTo(MaxPoints)

ContainersOptions ==
    {<<>>} \cup {[containers |-> List(cs)] : cs \in SeqsOf(QuotationContainers, 0, MaxContainers)}

\* Quotation documents: every route with the good containers, the routes of
\* at most one loading point with no containers, and the good route with
\* every container list.
QuotationDocs ==
    {r @@ GoodContainers : r \in RouteOptions}
    \cup RoutesUpTo(1)
    \cup {GoodRoute @@ c : c \in ContainersOptions}

\* Fields the booking path validates and the quotation path does not, with
\* values the booking path rejects.
UncheckedFields ==
    {[assumed_net_weight |-> Num(35001)],
     [assumed_net_weight |-> Num(0 - 1)],
     [assumed_tara |-> Num(0 - 1)],
     [services |-> List(<<[type |-> Str("WASHING")]>>)]}

UncheckedContainers == {GoodContainer @@ x : x \in UncheckedFields}

GoodBooking ==
    [booking |-> [transport_category |-> Str("IMPORT"), load_status |-> Str("FULL")]]

BookingOptions ==
    {GoodBooking, <<>>,
     [booking |-> [load_status |-> Str("FULL")]],
     [booking |-> [transport_category |-> Str("TRANSIT"), load_status |-> Str("FULL")]],
     [booking |-> [transport_category |-> Str("EXPORT")]],
     [booking |-> [transport_category |-> Str("EXPORT"), load_status |-> Str("HALF")]]}

ServiceOptions ==
    {<<>>,
     [services |-> List(<<>>)],
     [services |-> List(<<[type |-> Str("VET_STOP")]>>)],
     [services |-> List(<<[type |-> Str("VET_STOP"), quantity |-> Num(2)]>>)],
     [services |-> List(<<[type |-> Str("VET_STOP"), quantity |-> Num(0)]>>)],
     [services |-> List(<<[type |-> Str("WASHING")]>>)],
     [services |-> List(<<[quantity |-> Num(1)]>>)]}

BookingWeightOptions ==
    WeightOptions \cup {[assumed_tara |-> Num(0 - 1)], [assumed_net_weight |-> Null]}

\* Containers of a booking: the minimal good container with at most one
\* field replaced or added.
BookingContainers ==
    {s @@ GoodCode : s \in SeqOptions}
    \cup {GoodSeq @@ c : c \in CodeOptions}
    \cup {GoodSeq @@ GoodCode @@ p : p \in ProvisionAtOptions}
    \cup {GoodSeq @@ GoodCode @@ w : w \in BookingWeightOptions}
    \cup {GoodSeq @@ GoodCode @@ x : x \in ServiceOptions}

\* Booking documents the client operations draw: every booking option with
\* the good container, and the good booking with no, one or two containers
\* and with each container of UncheckedContainers.
BookingDocs ==
    {b @@ [containers |-> List(<<GoodSeq @@ GoodCode>>)] : b \in BookingOptions}
    \cup {GoodBooking, GoodBooking @@ [containers |-> List(<<>>)]}
    \cup {GoodBooking @@ [containers |-> List(<<c>>)] : c \in BookingContainers}
    \cup {GoodBooking @@ [containers |-> List(<<GoodSeq @@ GoodCode, c>>)] :
             c \in BookingContainers}
    \cup {GoodBooking @@ [containers |-> List(<<c>>)] : c \in UncheckedContainers}

\* Booking documents the validator is applied to: those of the client
\* operations, and the good booking with every container list.
ValidatorBookingDocs ==
    BookingDocs
    \cup {GoodBooking @@ [containers |-> List(cs)] :
             cs \in SeqsOf(BookingContainers, 0, MaxContainers)}

IsoCodeInputs ==
    {Str(c) : c \in PermittedIsoCodes \cup {"", "ZZZZ", "22G", "22g1", "22G1X", "ABCDE"}}
    \cup {Null, Num(22)}

WeightInputs ==
    {Num(w) : w \in (0 - WeightMargin)..(MaxNetWeight + WeightMargin)}
    \cup {Null, Str("100")}

(***************************************************************************)
(* SpecValidators: the validators as pure functions.  Init draws the       *)
(* class and one validator call; the action applies the validator.         *)
(***************************************************************************)
ValidatorCalls(v) ==
    {[op |-> "_validate_address", arg |-> a] : a \in Addresses}
    \cup {[op |-> "_validate_iso_code", arg |-> c] : c \in IsoCodeInputs}
    \cup {[op |-> "_validate_quotation_data", arg |-> d] : d \in QuotationDocs}
    \cup (IF v = "src"
          THEN {[op |-> o, arg |-> w] :
                    o \in {"_validate_weight", "_validate_net_weight"}, w \in WeightInputs}
               \cup {[op |-> "_validate_booking_data", arg |-> d] : d \in ValidatorBookingDocs}
          ELSE {})

NoRequests == <<>>

NoResponse == [kind |-> "none"]

NoOutcome == [kind |-> "none"]

InitValidators ==
    /\ variant \in {"src", "app"}
    /\ customer_id = Null
    /\ last_etag = Null
    /\ pc = "called"
    /\ call \in ValidatorCalls(variant)
    /\ sent = NoRequests
    /\ response = NoResponse
    /\ outcome = NoOutcome

Apply(op, result) ==
    /\ pc = "called"
    /\ call.op = op
    /\ outcome' = result
    /\ pc' = "done"
    /\ UNCHANGED <<variant, customer_id, last_etag, call, sent, response>>

ValidateAddress == Apply("_validate_address", validate_address(call.arg))

ValidateIsoCode == Apply("_validate_iso_code", validate_iso_code(variant, call.arg))

ValidateWeight == Apply("_validate_weight", validate_weight(call.arg))

ValidateNetWeight == Apply("_validate_net_weight", validate_net_weight(call.arg))

ValidateQuotationData ==
    Apply("_validate_quotation_data", validate_quotation_data(variant, call.arg))

ValidateBookingData == Apply("_validate_booking_data", validate_booking_data(call.arg))

NextValidators ==
    \/ ValidateAddress
    \/ ValidateIsoCode
    \/ ValidateWeight
    \/ ValidateNetWeight
    \/ ValidateQuotationData
    \/ ValidateBookingData

SpecValidators == InitValidators /\ [][NextValidators]_vars

(***************************************************************************)
(* The client: request construction                                        *)
(***************************************************************************)
\* self.api_key, set at construction.
api_key == Str("test-api-key")

\* Mutant of get_headers: the If-Match header is left out.
get_headers_without_if_match(if_match) ==
    ("Content-Type" :> Str("application/json")) @@ ("x-api-key" :> api_key)
    @@ (IF Truthy(customer_id) THEN "x-customer-id" :> customer_id ELSE <<>>)

get_headers(if_match) ==
    ("Content-Type" :> Str("application/json")) @@ ("x-api-key" :> api_key)
    @@ (IF Truthy(customer_id) THEN "x-customer-id" :> customer_id ELSE <<>>)
    @@ (IF Truthy(if_match) THEN "If-Match" :> if_match ELSE <<>>)

\* The arguments of requests.request as _make_request passes them.  The
\* endpoint is kept as its path segments; data and params are None (Null)
\* when the operation does not pass them.
Request(method, endpoint, data, params, if_match) ==
    [method |-> method, endpoint |-> endpoint, headers |-> get_headers(if_match),
     json |-> data, params |-> params]

QuotationEndpoint(v) == IF v = "src" THEN <<"quotations">> ELSE <<"booking", "quotations">>

(***************************************************************************)
(* The client: response handling (_make_request after requests.request)    *)
(***************************************************************************)
ErrorStatus == 400

SyntheticStatus == 500

TransportFailure == [kind |-> "RequestException"]

NoBody == [empty |-> TRUE]

JsonBody(d) == [json |-> d]

TextBody(t) == [text |-> t]

HttpResponse(status, headers, body) ==
    [kind |-> "response", status_code |-> status, headers |-> headers, body |-> body]

Returned(value) == [kind |-> "returned", value |-> value]

DriveMyBoxAPIException(status_code, message, details) ==
    [kind |-> "DriveMyBoxAPIException", status_code |-> status_code,
     message |-> message, details |-> details]

\* response.text of a body.
BodyText(body) == IF "text" \in DOMAIN body THEN body.text ELSE ""

\* The requests.RequestException handler of _make_request.
WrapRequestException ==
    DriveMyBoxAPIException(SyntheticStatus, "Request failed", Null)

\* Mutant of CatchRequestException: "except Exception", which also catches
\* the DriveMyBoxAPIException raised in the try block.
CatchAnyException(raised) ==
    IF raised.kind \in {"RequestException", "DriveMyBoxAPIException", "ValueError"}
    THEN WrapRequestException ELSE raised

\* "except requests.RequestException": the handler catches the library's
\* exceptions only; DriveMyBoxAPIException derives from Exception and
\* passes through.
CatchRequestException(raised) ==
    IF raised.kind = "RequestException" THEN WrapRequestException ELSE raised

\* response.json() on a body that is no JSON raises the library's
\* JSONDecodeError.  In requests 2.27 and later it derives from
\* RequestException (and ValueError); before, it is a plain ValueError.  The
\* repository pins no version, so both are outcomes a build can produce.
RequestsVersions == {"2.27+", "older"}

JsonDecodeError(lib) ==
    IF lib = "2.27+" THEN [kind |-> "RequestException"]
    ELSE ValueError("Expecting value")

\* The error branch: status >= 400.
error_details(body) ==
    IF "json" \in DOMAIN body THEN body.json ELSE [raw |-> Str(BodyText(body))]

\* How the try block ends for what requests.request produced, before the
\* except clause.
TryBlockOutcome(r, lib) ==
    IF r.kind = "RequestException" THEN r
    ELSE IF r.status_code >= ErrorStatus
    THEN DriveMyBoxAPIException(r.status_code, "API request failed", error_details(r.body))
    ELSE IF "empty" \in DOMAIN r.body THEN Returned(EmptyDict)
    ELSE IF "json" \in DOMAIN r.body THEN Returned(r.body.json)
    ELSE JsonDecodeError(lib)

MakeRequestOutcome(r, lib) == CatchRequestException(TryBlockOutcome(r, lib))

\* Mutant of StoreEtag: the header is stored for a success status only.
StoreEtag_success_only(r) ==
    IF /\ r.kind = "response"
       /\ r.status_code < ErrorStatus
       /\ "ETag" \in DOMAIN r.headers
       /\ r.headers["ETag"] # ""
    THEN Str(r.headers["ETag"])
    ELSE last_etag

\* "etag = response.headers.get('ETag'); if etag: self.last_etag = etag"
StoreEtag(r) ==
    IF r.kind = "response" /\ "ETag" \in DOMAIN r.headers /\ r.headers["ETag"] # ""
    THEN Str(r.headers["ETag"])
    ELSE last_etag

(***************************************************************************)
(* Inputs of the client operations                                         *)
(***************************************************************************)
LongRef == "RRRRRRRRRRRRRRRRRRRRRRRRRRRRRRRRRRRRRRRRRRRRRRRRRRRRRRRRRRRRRRRRRRRRRRRRRRRRRRRRRRRRRRRRRRRRRRRRRRRRRRRRRRRRRRRRRRRRRRRRRRRRRRRRR"

JobOrderRefs == {Null, Str(""), Str("JO-1"), Str(LongRef)}

IfMatchValues == {Null, Str(""), Str("v1")}

CustomerIds == {Null, Str("cust-1")}

UpdateDocs ==
    {GoodBooking @@ [containers |-> List(<<c>>)] :
        c \in {GoodSeq @@ GoodCode, [sequence_number |-> Str("1")] @@ GoodCode,
               GoodSeq @@ GoodCode @@ [assumed_net_weight |-> Num(35001)]}}
    \cup {<<>>}

ContainerNumberLists ==
    {Null, List(<<>>), List(<<Str("MSKU1234567")>>), List(<<Str("MSKU123")>>),
     List(<<Str("MSKU1234567"), Str("HLXU7654321")>>), List(<<Num(5)>>)}

SequenceNumberLists ==
    {Null, List(<<>>), List(<<Num(1)>>), List(<<Num(0), Num(2)>>),
     List(<<Num(0 - 1)>>), List(<<Str("1")>>)}

\* Quotation documents the client operations draw: one loading point and
\* one container at a time, every ISO code input, and two flagged points.
ClientQuotationDocs ==
    {[route |-> [route_loading_points |-> List(<<p>>)]] @@ GoodContainers :
        p \in LoadingPoints}
    \cup {GoodRoute @@ [containers |-> List(<<c>>)] : c \in QuotationContainers}
    \cup {GoodRoute @@ [containers |-> List(<<c>>)] : c \in UncheckedContainers}
    \cup {GoodRoute @@ [containers |-> List(<<GoodSeq @@ [type_code |-> c] @@ GoodProvisionAt>>)] :
             c \in IsoCodeInputs}
    \cup {[route |-> [route_loading_points |-> List(<<GoodPoint, GoodPoint>>)]] @@ GoodContainers,
          GoodRoute, GoodContainers, EmptyDict}

StatusCodes == {200, 399, 400, 401, 500}

ResponseHeaders == {<<>>, ("ETag" :> "v1"), ("ETag" :> "v2"), ("ETag" :> "")}

ResponseBodies ==
    {NoBody, JsonBody([error |-> Str("unauthorized")]), JsonBody(EmptyDict),
     TextBody("<html>maintenance</html>")}

Responses ==
    {TransportFailure}
    \cup {HttpResponse(st, h, b) : st \in StatusCodes, h \in ResponseHeaders, b \in ResponseBodies}

(***************************************************************************)
(* Spec: the client operations.  An operation validates its arguments and  *)
(* either raises or issues its request and blocks (pc = "waiting");        *)
(* Receive is the rest of _make_request, run when requests.request         *)
(* returns or raises; Return hands the outcome to the caller.              *)
(***************************************************************************)
NoCall == [op |-> "none"]

Init ==
    /\ variant \in {"src", "app"}
    /\ customer_id \in CustomerIds
    /\ last_etag = Null
    /\ pc = "idle"
    /\ call = NoCall
    /\ sent = NoRequests
    /\ response = NoResponse
    /\ outcome = NoOutcome

\* An operation called with the arguments c: checks is how its validation
\* ends, request is what it passes to _make_request when validation passes.
Invoke(c, checks, request) ==
    /\ pc = "idle"
    /\ call' = c
    /\ response' = NoResponse
    /\ IF checks.kind = "ok"
       THEN /\ sent' = Append(sent, request)
            /\ outcome' = NoOutcome
            /\ pc' = "waiting"
       ELSE /\ sent' = sent
            /\ outcome' = checks
            /\ pc' = "done"
    /\ UNCHANGED <<variant, customer_id, last_etag>>

create_booking(booking_data) ==
    Invoke([op |-> "create_booking", booking_data |-> booking_data],
           validate_booking_data(booking_data),
           Request("POST", <<"bookings">>, booking_data, Null, Null))

get_booking(job_order_ref) ==
    Invoke([op |-> "get_booking", job_order_ref |-> job_order_ref],
           validate_job_order_ref(job_order_ref),
           Request("GET", <<"bookings", job_order_ref.str>>, Null, Null, Null))

RequireIfMatch(if_match, message) ==
    IF ~Truthy(if_match) THEN ValueError(message) ELSE Ok

update_booking(job_order_ref, booking_data, if_match) ==
    Invoke([op |-> "update_booking", job_order_ref |-> job_order_ref,
            booking_data |-> booking_data, if_match |-> if_match],
           Then(validate_job_order_ref(job_order_ref),
           Then(validate_booking_data(booking_data),
                RequireIfMatch(if_match, "If-Match header is required for booking updates"))),
           Request("PUT", <<"bookings", job_order_ref.str>>, booking_data, Null, if_match))

RECURSIVE validate_container_numbers(_, _)
validate_container_numbers(numbers, i) ==
    IF i > Len(numbers) THEN Ok
    ELSE Then(validate_container_number(numbers[i]),
              validate_container_numbers(numbers, i + 1))

RECURSIVE validate_sequence_numbers(_, _)
validate_sequence_numbers(numbers, i) ==
    IF i > Len(numbers) THEN Ok
    ELSE IF ~Orderable(numbers[i]) THEN TypeError
    ELSE IF numbers[i].num < 0
    THEN ValueError("Container sequence numbers must be non-negative")
    ELSE validate_sequence_numbers(numbers, i + 1)

\* Mutant of cancel_params: both selections are always passed on.
cancel_params_always(container_numbers, container_sequence_numbers) ==
    [container_numbers |-> container_numbers,
     container_sequence_numbers |-> container_sequence_numbers]

cancel_params(container_numbers, container_sequence_numbers) ==
    (IF Truthy(container_numbers) THEN [container_numbers |-> container_numbers] ELSE <<>>)
    @@ (IF Truthy(container_sequence_numbers)
        THEN [container_sequence_numbers |-> container_sequence_numbers] ELSE <<>>)

cancel_containers(job_order_ref, container_numbers, container_sequence_numbers, if_match) ==
    Invoke([op |-> "cancel_containers", job_order_ref |-> job_order_ref,
            container_numbers |-> container_numbers,
            container_sequence_numbers |-> container_sequence_numbers,
            if_match |-> if_match],
           Then(validate_job_order_ref(job_order_ref),
           Then(IF Truthy(container_numbers)
                THEN validate_container_numbers(container_numbers.list, 1) ELSE Ok,
           Then(IF Truthy(container_sequence_numbers)
                THEN validate_sequence_numbers(container_sequence_numbers.list, 1) ELSE Ok,
                RequireIfMatch(if_match, "If-Match header is required for container cancellation")))),
           Request("DELETE", <<"bookings", job_order_ref.str, "containers">>, Null,
                   cancel_params(container_numbers, container_sequence_numbers), if_match))

get_booking_status(job_order_ref) ==
    Invoke([op |-> "get_booking_status", job_order_ref |-> job_order_ref],
           validate_job_order_ref(job_order_ref),
           Request("GET", <<"bookings", job_order_ref.str, "status">>, Null, Null, Null))

\* Mutant of create_price_quotation: the body is rebuilt from the validated
\* fields only.
create_price_quotation_validated_fields(quotation_data) ==
    Invoke([op |-> "create_price_quotation", quotation_data |-> quotation_data],
           validate_quotation_data(variant, quotation_data),
           Request("POST", QuotationEndpoint(variant),
                   [route |-> quotation_data.route,
                    containers |-> List([i \in 1..Len(quotation_data.containers.list) |->
                        [k \in {"sequence_number", "type_code", "provision_at"} |->
                            quotation_data.containers.list[i][k]]])],
                   Null, Null))

create_price_quotation(quotation_data) ==
    Invoke([op |-> "create_price_quotation", quotation_data |-> quotation_data],
           validate_quotation_data(variant, quotation_data),
           Request("POST", QuotationEndpoint(variant), quotation_data, Null, Null))

CreateBooking == variant = "src" /\ \E d \in BookingDocs : create_booking(d)

GetBooking == variant = "src" /\ \E ref \in JobOrderRefs : get_booking(ref)

UpdateBooking ==
    /\ variant = "src"
    /\ \E ref \in JobOrderRefs, d \in UpdateDocs, m \in IfMatchValues :
          update_booking(ref, d, m)

CancelContainers ==
    /\ variant = "src"
    /\ \E ref \in JobOrderRefs, ns \in ContainerNumberLists,
          qs \in SequenceNumberLists, m \in IfMatchValues :
          cancel_containers(ref, ns, qs, m)

GetBookingStatus == variant = "src" /\ \E ref \in JobOrderRefs : get_booking_status(ref)

CreatePriceQuotation == \E d \in ClientQuotationDocs : create_price_quotation(d)

\* requests.request returned a response or raised: the rest of _make_request.
make_request_receive(r, lib) ==
    /\ pc = "waiting"
    /\ response' = r
    /\ last_etag' = StoreEtag(r)
    /\ outcome' = MakeRequestOutcome(r, lib)
    /\ pc' = "done"
    /\ UNCHANGED <<variant, customer_id, call, sent>>

Receive == \E r \in Responses, lib \in RequestsVersions : make_request_receive(r, lib)

\* The caller has the result or the exception; the call's frame is gone.
Return ==
    /\ pc = "done"
    /\ pc' = "idle"
    /\ call' = NoCall
    /\ sent' = NoRequests
    /\ response' = NoResponse
    /\ outcome' = NoOutcome
    /\ UNCHANGED <<variant, customer_id, last_etag>>

Next ==
    \/ CreateBooking
    \/ GetBooking
    \/ UpdateBooking
    \/ CancelContainers
    \/ GetBookingStatus
    \/ CreatePriceQuotation
    \/ Receive
    \/ Return

Spec == Init /\ [][Next]_vars

(***************************************************************************)
(* SpecThreads: two threads of the caller share one client instance.  The  *)
(* call in progress (pc, call, sent, response, outcome) is per thread; the *)
(* instance's attributes are shared.  No method takes a lock, so the steps *)
(* of the two calls interleave freely.                                     *)
(***************************************************************************)
Threads == {"A", "B"}

ThreadJobOrderRefs == {Str(""), Str("JO-1")}

ThreadQuotationDocs == {GoodRoute @@ GoodContainers, GoodRoute}

ThreadResponses ==
    {TransportFailure}
    \cup {HttpResponse(st, h, JsonBody(EmptyDict)) : st \in {200, 400}, h \in ResponseHeaders}

InitThreads ==
    /\ variant \in {"src", "app"}
    /\ customer_id \in CustomerIds
    /\ last_etag = Null
    /\ pc = [t \in Threads |-> "idle"]
    /\ call = [t \in Threads |-> NoCall]
    /\ sent = [t \in Threads |-> NoRequests]
    /\ response = [t \in Threads |-> NoResponse]
    /\ outcome = [t \in Threads |-> NoOutcome]

\* Thread t calls an operation: as Invoke, on the thread's own frame.
thread_invoke(t, c, checks, request) ==
    /\ pc[t] = "idle"
    /\ call' = [call EXCEPT ![t] = c]
    /\ response' = [response EXCEPT ![t] = NoResponse]
    /\ IF checks.kind = "ok"
       THEN /\ sent' = [sent EXCEPT ![t] = Append(sent[t], request)]
            /\ outcome' = [outcome EXCEPT ![t] = NoOutcome]
            /\ pc' = [pc EXCEPT ![t] = "waiting"]
       ELSE /\ sent' = sent
            /\ outcome' = [outcome EXCEPT ![t] = checks]
            /\ pc' = [pc EXCEPT ![t] = "done"]
    /\ UNCHANGED <<variant, customer_id, last_etag>>

ThreadGetBooking(t) ==
    /\ variant = "src"
    /\ \E ref \in ThreadJobOrderRefs :
          thread_invoke(t, [op |-> "get_booking", job_order_ref |-> ref],
                        validate_job_order_ref(ref),
                        Request("GET", <<"bookings", ref.str>>, Null, Null, Null))

ThreadCreatePriceQuotation(t) ==
    \E d \in ThreadQuotationDocs :
        thread_invoke(t, [op |-> "create_price_quotation", quotation_data |-> d],
                      validate_quotation_data(variant, d),
                      Request("POST", QuotationEndpoint(variant), d, Null, Null))

\* Mutant of thread_receive: the header is stored only while no ETag has
\* been stored yet.
thread_receive_first_write_wins(t, r, lib) ==
    /\ pc[t] = "waiting"
    /\ response' = [response EXCEPT ![t] = r]
    /\ last_etag' = IF last_etag = Null THEN StoreEtag(r) ELSE last_etag
    /\ outcome' = [outcome EXCEPT ![t] = MakeRequestOutcome(r, lib)]
    /\ pc' = [pc EXCEPT ![t] = "done"]
    /\ UNCHANGED <<variant, customer_id, call, sent>>

\* requests.request returned or raised in thread t: the rest of
\* _make_request, with its plain assignment to self.last_etag.
thread_receive(t, r, lib) ==
    /\ pc[t] = "waiting"
    /\ response' = [response EXCEPT ![t] = r]
    /\ last_etag' = StoreEtag(r)
    /\ outcome' = [outcome EXCEPT ![t] = MakeRequestOutcome(r, lib)]
    /\ pc' = [pc EXCEPT ![t] = "done"]
    /\ UNCHANGED <<variant, customer_id, call, sent>>

ThreadReceive(t) ==
    \E r \in ThreadResponses, lib \in RequestsVersions : thread_receive(t, r, lib)

\* Thread t goes on after the call; the call's frame is gone.
ThreadReturn(t) ==
    /\ pc[t] = "done"
    /\ pc' = [pc EXCEPT ![t] = "idle"]
    /\ call' = [call EXCEPT ![t] = NoCall]
    /\ sent' = [sent EXCEPT ![t] = NoRequests]
    /\ response' = [response EXCEPT ![t] = NoResponse]
    /\ outcome' = [outcome EXCEPT ![t] = NoOutcome]
    /\ UNCHANGED <<variant, customer_id, last_etag>>

NextThreads ==
    \E t \in Threads :
        \/ ThreadGetBooking(t)
        \/ ThreadCreatePriceQuotation(t)
        \/ ThreadReceive(t)
        \/ ThreadReturn(t)

SpecThreads == InitThreads /\ [][NextThreads]_vars

(***************************************************************************)
(* Claims                                                                  *)
(***************************************************************************)
InCall(op) == pc \in {"waiting", "done"} /\ call.op = op

\* C1: update_booking and cancel_containers called with an absent
\* concurrency token (None or "") raise a validation error and issue no
\* HTTP request, whatever the other arguments are.
C1_AbsentTokenFailsLocally ==
    (/\ pc \in {"waiting", "done"}
     /\ call.op \in {"update_booking", "cancel_containers"}
     /\ call.if_match \in {Null, Str("")})
    => (pc = "done" /\ outcome.kind = "ValueError" /\ sent = <<>>)

\* C2: an operation that ends in a validation error has issued no HTTP
\* request, and an operation that ends in any other way has issued exactly
\* one; no request is repeated.
C2_RequestCount ==
    /\ Len(sent) <= 1
    /\ pc = "done" =>
          IF outcome.kind = "ValueError" THEN Len(sent) = 0 ELSE Len(sent) = 1

\* C3: for every quotation document that passes validation,
\* create_price_quotation issues exactly one request, a POST to the
\* quotation endpoint whose body is the caller's document with every field
\* as supplied (unchecked fields such as assumed_net_weight included), and
\* the step that validates and sends writes no client state.
C3_BodyIsDocument ==
    (InCall("create_price_quotation")
        /\ validate_quotation_data(variant, call.quotation_data) = Ok)
    => /\ Len(sent) = 1
       /\ sent[1].method = "POST"
       /\ sent[1].endpoint = (IF variant = "src" THEN <<"quotations">>
                              ELSE <<"booking", "quotations">>)
       /\ sent[1].json = call.quotation_data
       /\ sent[1].params = Null

C3_ValidationWritesNoState ==
    (pc = "idle" /\ call'.op = "create_price_quotation")
    => (last_etag' = last_etag /\ customer_id' = customer_id /\ variant' = variant)

C3_ForwardedUnchanged == []C3_BodyIsDocument /\ [][C3_ValidationWritesNoState]_vars

\* C3 witness: a valid quotation document carrying the unchecked fields
\* assumed_net_weight and assumed_tara is in flight as the request body.
C3_Witness ==
    /\ pc = "waiting"
    /\ call.op = "create_price_quotation"
    /\ call.quotation_data =
          GoodRoute @@ [containers |-> List(<<GoodContainer
              @@ [assumed_net_weight |-> Num(18000), assumed_tara |-> Num(18000)]>>)]
    /\ sent[1].json = call.quotation_data

\* The quotation document of the test script with the container's type code
\* replaced by c.
IsoDoc(c) ==
    GoodRoute @@ [containers |-> List(<<GoodSeq @@ [type_code |-> c] @@ GoodProvisionAt>>)]

IsoCodeMustFail(c) ==
    \/ ~IsStr(c)
    \/ c.str = ""
    \/ Len(c.str) > 4
    \/ c.str \notin PermittedIsoCodes

\* C4: in the strict (app) variant a quotation whose container's type code
\* is empty, longer than 4 characters or outside the permitted set is
\* rejected before any HTTP request; a code of the permitted set passes and
\* the request is issued; the code "ZZZZ" is rejected with the ISO-code
\* validation error.
C4_StrictIsoCode ==
    \A c \in IsoCodeInputs :
        (variant = "app" /\ InCall("create_price_quotation")
            /\ call.quotation_data = IsoDoc(c))
        => /\ IsoCodeMustFail(c) =>
                 (pc = "done" /\ sent = <<>> /\ outcome.kind \in {"ValueError", "TypeError"})
           /\ ~IsoCodeMustFail(c) => Len(sent) = 1
           /\ c = Str("ZZZZ") => outcome = ValueError("ISO type code not supported")

\* C4 witness: the strict client has rejected the "ZZZZ" document with the
\* ISO-code error and no request.
C4_Witness ==
    /\ variant = "app"
    /\ pc = "done"
    /\ call.op = "create_price_quotation"
    /\ call.quotation_data = IsoDoc(Str("ZZZZ"))
    /\ outcome = ValueError("ISO type code not supported")
    /\ sent = <<>>

ValidatorDone(op) == pc = "done" /\ call.op = op

PointsOf(d) ==
    IF "route" \in DOMAIN d /\ "route_loading_points" \in DOMAIN d.route
    THEN d.route.route_loading_points.list ELSE <<>>

FlaggedCount(points) ==
    Cardinality({i \in 1..Len(points) :
        "provision_location" \in DOMAIN points[i]
            /\ points[i].provision_location = Bool(TRUE)})

\* A recognized type, a non-negative sequence number and an address that
\* address validation accepts.
PointWellFormed(p) ==
    /\ "type" \in DOMAIN p
    /\ \E t \in LoadingPointType : p.type = Str(t)
    /\ "sequence_number" \in DOMAIN p
    /\ IsNum(p.sequence_number)
    /\ p.sequence_number.num >= 0
    /\ "address" \in DOMAIN p
    /\ validate_address(p.address) = Ok

\* How a quotation whose route passed ends, given its containers, in the
\* documents that pair a route with the good containers or with none.
AfterRoute(d) ==
    IF "containers" \in DOMAIN d THEN Ok
    ELSE ValueError("Quotation must contain at least one container")

RouteDoc(d) == "containers" \notin DOMAIN d \/ d.containers = GoodContainers.containers

\* C6: quotation route validation fails when the route has no loading
\* point, fails when two or more loading points set provision_location
\* true, and passes the route when at most one does and every point has a
\* recognized type, a non-negative sequence number and a valid address,
\* for every number and order of loading points.
C6_RouteValidation ==
    (ValidatorDone("_validate_quotation_data") /\ RouteDoc(call.arg))
    => LET d == call.arg
           points == PointsOf(d)
           wellFormed == \A i \in 1..Len(points) : PointWellFormed(points[i])
       IN  /\ Len(points) = 0 =>
                 (outcome.kind = "ValueError"
                    /\ outcome.msg \in {"Quotation data must contain a 'route' field",
                                        "Route must contain at least one loading point"})
           /\ FlaggedCount(points) >= 2 => outcome.kind \in {"ValueError", "TypeError"}
           /\ (FlaggedCount(points) >= 2 /\ wellFormed) =>
                 outcome = ValueError("Route can have at most one provision location")
           /\ (Len(points) >= 1 /\ FlaggedCount(points) <= 1 /\ wellFormed) =>
                 outcome = AfterRoute(d)

\* C6 witness: two well-formed loading points that both set
\* provision_location have been rejected.
C6_Witness ==
    /\ ValidatorDone("_validate_quotation_data")
    /\ call.arg = [route |-> [route_loading_points |-> List(<<GoodPoint, GoodPoint>>)]]
                     @@ GoodContainers
    /\ outcome = ValueError("Route can have at most one provision location")

HasBothCoordinates(a) ==
    /\ "geo_coordinates" \in DOMAIN a
    /\ IsDict(a.geo_coordinates)
    /\ {"latitude", "longitude"} \subseteq DOMAIN a.geo_coordinates

HasPostalTriple(a) == {"city", "country", "postal_code"} \subseteq DOMAIN a

\* C7: address validation succeeds if and only if the address has
\* geo_coordinates with both latitude and longitude, or has all three of
\* city, country and postal_code.
C7_AddressValidation ==
    ValidatorDone("_validate_address")
    => (outcome = Ok <=> (HasBothCoordinates(call.arg) \/ HasPostalTriple(call.arg)))

\* C8: net weight validation succeeds exactly for the weights 0..35000 and
\* fails for every other weight (-1 and 35001 among them); tare weight
\* validation succeeds exactly for the weights >= 0.
C8_WeightValidation ==
    /\ ValidatorDone("_validate_net_weight")
       => (outcome = Ok <=>
              (IsNum(call.arg) /\ call.arg.num >= 0 /\ call.arg.num <= 35000))
    /\ ValidatorDone("_validate_weight")
       => (outcome = Ok <=> (IsNum(call.arg) /\ call.arg.num >= 0))

\* C8 witness: the net weight 35000 has been accepted.
C8_Witness ==
    /\ ValidatorDone("_validate_net_weight")
    /\ call.arg = Num(35000)
    /\ outcome = Ok

Responded == pc = "done" /\ response.kind = "response"

\* C9: for every response with status >= 400 the call raises an API error
\* whose status_code is the response's status and whose details are the
\* parsed body, or {"raw": text} when the body does not parse; for every
\* response with status < 400 no API error is raised and the parsed body
\* is returned, or an empty mapping when the body is absent.
C9_ResponseMapping ==
    Responded =>
        IF response.status_code >= 400
        THEN /\ outcome.kind = "DriveMyBoxAPIException"
             /\ outcome.status_code = response.status_code
             /\ outcome.details =
                   (IF "json" \in DOMAIN response.body THEN response.body.json
                    ELSE IF "text" \in DOMAIN response.body
                    THEN [raw |-> Str(response.body.text)]
                    ELSE [raw |-> Str("")])
        ELSE /\ outcome.kind = "returned"
             /\ outcome.value =
                   (IF "json" \in DOMAIN response.body THEN response.body.json
                    ELSE EmptyDict)

\* C10: when the HTTP call fails at transport level the call raises an API
\* error with the synthetic status 500 and no details, and the API error
\* raised for a response with status >= 400 reaches the caller as raised,
\* never re-wrapped into the synthetic error.
C10_TransportFailure ==
    /\ (pc = "done" /\ response = [kind |-> "RequestException"])
       => /\ outcome.kind = "DriveMyBoxAPIException"
          /\ outcome.status_code = 500
          /\ outcome.details = Null
          /\ outcome.message = "Request failed"
    /\ (Responded /\ response.status_code >= 400)
       => /\ outcome.kind = "DriveMyBoxAPIException"
          /\ outcome.status_code = response.status_code
          /\ outcome.message = "API request failed"
          /\ outcome.details # Null

\* C10 witness: a call whose request met a transport failure has ended in
\* the synthetic error.
C10_Witness ==
    /\ pc = "done"
    /\ response = [kind |-> "RequestException"]
    /\ Len(sent) = 1
    /\ outcome.kind = "DriveMyBoxAPIException"
    /\ outcome.status_code = 500
    /\ outcome.details = Null

\* C11: every invocation of a public operation ends in exactly one of three
\* outcomes: a returned result, a validation error raised with no request
\* issued, or an API error raised after a request was attempted; no other
\* error kind escapes, whatever the input mapping and the response.
C11_ThreeOutcomes ==
    pc = "done" =>
        \/ outcome.kind = "returned" /\ Len(sent) = 1
        \/ outcome.kind = "ValueError" /\ sent = <<>>
        \/ outcome.kind = "DriveMyBoxAPIException" /\ Len(sent) = 1

\* The service rule: a recognized type and, when a quantity is given, a
\* positive integer.
ServiceRule(service) ==
    /\ "type" \in DOMAIN service
    /\ IsStr(service.type)
    /\ service.type.str \in ContainerServiceType
    /\ "quantity" \in DOMAIN service =>
          (IsNum(service.quantity) /\ service.quantity.num > 0)

\* The container rule: sequence number and type code present and valid;
\* provision timestamp, net weight, tare weight and services valid when
\* present.
ContainerRule(container) ==
    /\ "sequence_number" \in DOMAIN container
    /\ IsNum(container.sequence_number)
    /\ container.sequence_number.num >= 0
    /\ "type_code" \in DOMAIN container
    /\ IsStr(container.type_code)
    /\ Len(container.type_code.str) \in 1..4
    /\ "provision_at" \in DOMAIN container =>
          (IsStr(container.provision_at) /\ container.provision_at.str \in IsoFormatStrings)
    /\ "assumed_net_weight" \in DOMAIN container =>
          (IsNum(container.assumed_net_weight)
             /\ container.assumed_net_weight.num \in 0..35000)
    /\ "assumed_tara" \in DOMAIN container =>
          (IsNum(container.assumed_tara) /\ container.assumed_tara.num >= 0)
    /\ "services" \in DOMAIN container =>
          \A i \in 1..Len(container.services.list) : ServiceRule(container.services.list[i])

BookingRule(d) ==
    /\ "booking" \in DOMAIN d
    /\ "transport_category" \in DOMAIN d.booking
    /\ d.booking.transport_category \in
          {Str(t) : t \in {"IMPORT", "EXPORT", "EMPTY_PICKUP", "EMPTY_RETURN", "ROUND_TRIP"}}
    /\ "load_status" \in DOMAIN d.booking
    /\ d.booking.load_status \in {Str("EMPTY"), Str("FULL")}
    /\ "containers" \in DOMAIN d
    /\ Len(d.containers.list) >= 1
    /\ \A i \in 1..Len(d.containers.list) : ContainerRule(d.containers.list[i])

\* C12: booking document validation succeeds if and only if the document
\* has a booking key with a recognized transport category and load status
\* and a non-empty containers list in which every container passes the
\* container rule.
C12_BookingValidation ==
    ValidatorDone("_validate_booking_data")
    => (outcome = Ok <=> BookingRule(call.arg))

\* C12 witness: a booking with two containers, the second one carrying a
\* service with a quantity, has been accepted.
C12_Witness ==
    /\ ValidatorDone("_validate_booking_data")
    /\ call.arg = GoodBooking @@ [containers |-> List(<<GoodSeq @@ GoodCode,
          GoodSeq @@ GoodCode
            @@ [services |-> List(<<[type |-> Str("VET_STOP"), quantity |-> Num(2)]>>)]>>)]
    /\ outcome = Ok

\* The loading points from index i on, read in document order: a point's
\* own violation, or the provision location violation at the point that is
\* the second one flagged.
RECURSIVE PointsInOrder(_, _, _)
PointsInOrder(points, i, flagged) ==
    IF i > Len(points) THEN Ok
    ELSE LET r == validate_loading_point(points[i])
             n == IF IsProvisionLocation(points[i]) THEN flagged + 1 ELSE flagged
         IN  IF r.kind # "ok" THEN r
             ELSE IF n > 1 THEN ValueError("Route can have at most one provision location")
             ELSE PointsInOrder(points, i + 1, n)

\* The earliest violation of a quotation document in document order: the
\* route before the containers, a lower index before a higher one.
EarliestViolation(v, d) ==
    IF "route" \notin DOMAIN d
    THEN ValueError("Quotation data must contain a 'route' field")
    ELSE IF PointsOf(d) = <<>>
    THEN ValueError("Route must contain at least one loading point")
    ELSE Then(PointsInOrder(PointsOf(d), 1, 0),
              IF "containers" \notin DOMAIN d \/ d.containers.list = <<>>
              THEN ValueError("Quotation must contain at least one container")
              ELSE validate_quotation_containers(v, d.containers.list, 1))

\* C13: the quotation validator checks the document in document order and
\* stops at the first violation: the error raised is the one for the
\* earliest violation, the provision location violation (at the second
\* flagged loading point) coming before any violation of a later loading
\* point.
C13_DocumentOrder ==
    ValidatorDone("_validate_quotation_data")
    => outcome = EarliestViolation(variant, call.arg)

\* The step in which requests.request hands its result to _make_request.
Received == pc = "waiting" /\ pc' = "done"

CarriesETagHeader(r) == r.kind = "response" /\ "ETag" \in DOMAIN r.headers

CarriesETag(r) == CarriesETagHeader(r) /\ r.headers["ETag"] # ""

\* C14 (as claimed): the last-seen ETag has no value at first; a response
\* that carries an ETag header, success or error, sets it to the header's
\* value, and every other step (a response without the header, a transport
\* failure, a rejected operation) leaves it unchanged.
C14_LastSeenETagHeader ==
    /\ last_etag = Null
    /\ [][IF Received /\ CarriesETagHeader(response')
          THEN last_etag' = Str(response'.headers["ETag"])
          ELSE last_etag' = last_etag]_vars

\* C14 (amended): the last-seen ETag has no value at first; a response that
\* carries a non-empty ETag header, success or error, sets it to the
\* header's value, and every other step (a response without the header or
\* with an empty one, a transport failure, a rejected operation) leaves it
\* unchanged.
C14_LastSeenETag ==
    /\ last_etag = Null
    /\ [][IF Received /\ CarriesETag(response')
          THEN last_etag' = Str(response'.headers["ETag"])
          ELSE last_etag' = last_etag]_vars

\* C14 witness: an error response with an empty ETag header has been
\* handled and the ETag of an earlier response is still the last-seen one.
C14_Witness ==
    /\ pc = "done"
    /\ response.kind = "response"
    /\ response.status_code = 401
    /\ response.headers = ("ETag" :> "")
    /\ last_etag = Str("v1")

\* Thread t's call has ended with a response that carried the ETag e.
EndedWithETag(t, e) ==
    /\ pc[t] = "done"
    /\ CarriesETag(response[t])
    /\ response[t].headers["ETag"] = e

\* C15: when two operations run concurrently on one client instance, the
\* only instance state either writes is the last-seen ETag, and the write
\* is unsynchronized: a call that receives an ETag stores it whatever the
\* other call is doing, so once both calls have ended with an ETag the
\* last-seen one is the ETag of either of them.
C15_UnsynchronizedETag ==
    /\ [][variant' = variant /\ customer_id' = customer_id]_vars
    /\ [][\A t \in Threads :
            (pc[t] = "waiting" /\ pc'[t] = "done" /\ CarriesETag(response'[t]))
            => last_etag' = Str(response'[t].headers["ETag"])]_vars
    /\ [](\A a, b \in {"v1", "v2"} :
            (EndedWithETag("A", a) /\ EndedWithETag("B", b))
            => last_etag \in {Str(a), Str(b)})

\* C15 witness: operation A has returned with a response whose ETag is
\* "v1", and the last-seen ETag is "v2", the one of operation B's response.
C15_Witness ==
    /\ pc["A"] = "done"
    /\ outcome["A"].kind = "returned"
    /\ EndedWithETag("A", "v1")
    /\ EndedWithETag("B", "v2")
    /\ last_etag = Str("v2")

\* The if_match argument of the call in progress (None for the operations
\* that take none).
CallerToken == IF "if_match" \in DOMAIN call THEN call.if_match ELSE Null

Supplied(v) == v \notin {Null, Str("")}

\* C16: the headers of every request contain Content-Type:
\* application/json and the API key given at construction; they contain
\* the customer id header if and only if a customer id was supplied and the
\* If-Match header if and only if an if_match value was supplied, its value
\* being exactly the caller's token; PUT and DELETE requests always carry
\* it, GET and POST requests never.
C16_Headers ==
    \A i \in 1..Len(sent) :
        LET h == sent[i].headers
        IN  /\ DOMAIN h \subseteq {"Content-Type", "x-api-key", "x-customer-id", "If-Match"}
            /\ "Content-Type" \in DOMAIN h /\ h["Content-Type"] = Str("application/json")
            /\ "x-api-key" \in DOMAIN h /\ h["x-api-key"] = api_key
            /\ "x-customer-id" \in DOMAIN h <=> Supplied(customer_id)
            /\ "x-customer-id" \in DOMAIN h => h["x-customer-id"] = customer_id
            /\ "If-Match" \in DOMAIN h <=> Supplied(CallerToken)
            /\ "If-Match" \in DOMAIN h => h["If-Match"] = CallerToken
            /\ call.op \in {"update_booking", "cancel_containers"} => "If-Match" \in DOMAIN h
            /\ sent[i].method \in {"GET", "POST"} => "If-Match" \notin DOMAIN h

\* C16 witness: an update_booking request of a client with a customer id is
\* in flight with the caller's token and the customer id in its headers.
C16_Witness ==
    /\ pc = "waiting"
    /\ call.op = "update_booking"
    /\ call.if_match = Str("v1")
    /\ customer_id = Str("cust-1")
    /\ sent[1].headers["If-Match"] = Str("v1")
    /\ sent[1].headers["x-customer-id"] = Str("cust-1")
    /\ sent[1].headers["x-api-key"] = api_key

IsoCodeError == ValueError("ISO type code not supported")

\* A container whose type code is non-empty and at most 4 characters long,
\* with the code replaced by one of the allow-list.
Relisted(container) ==
    IF /\ "type_code" \in DOMAIN container
       /\ IsStr(container.type_code)
       /\ Len(container.type_code.str) \in 1..4
    THEN [container EXCEPT !.type_code = Str("22G1")]
    ELSE container

RelistedDoc(d) ==
    IF "containers" \in DOMAIN d
    THEN [d EXCEPT !.containers =
             List([i \in 1..Len(d.containers.list) |-> Relisted(d.containers.list[i])])]
    ELSE d

\* C17 (as claimed): the two variants' quotation validators end alike on
\* every quotation document, except the documents whose first violation is
\* a type code that is non-empty, at most 4 characters long and outside the
\* allow-list: the strict variant rejects those and the loose variant
\* accepts them.
C17_VariantsAgree ==
    ValidatorDone("_validate_quotation_data")
    => LET strict == validate_quotation_data("app", call.arg)
           loose == validate_quotation_data("src", call.arg)
       IN  IF strict = IsoCodeError THEN loose = Ok ELSE loose = strict

\* C17 (amended): the two variants' quotation validators end alike on every
\* quotation document, except the documents whose first violation is a
\* type code that is non-empty, at most 4 characters long and outside the
\* allow-list: the strict variant rejects those, and the loose variant
\* passes over such codes and ends as the strict one does on the document
\* with these codes replaced by permitted ones (it accepts, or rejects with
\* the next violation).
C17_VariantsAgreeUpToAllowList ==
    ValidatorDone("_validate_quotation_data")
    => LET strict == validate_quotation_data("app", call.arg)
           loose == validate_quotation_data("src", call.arg)
       IN  /\ outcome = (IF variant = "app" THEN strict ELSE loose)
           /\ strict # IsoCodeError => loose = strict
           /\ strict = IsoCodeError =>
                 /\ loose # IsoCodeError
                 /\ loose = validate_quotation_data("app", RelistedDoc(call.arg))

\* C17 witness: the loose variant has rejected, for the second container's
\* provision date, a document that the strict variant rejects for the first
\* container's type code.
C17_Witness ==
    /\ ValidatorDone("_validate_quotation_data")
    /\ variant = "src"
    /\ call.arg = GoodRoute @@ [containers |-> List(<<
          GoodSeq @@ [type_code |-> Str("ZZZZ")] @@ GoodProvisionAt,
          GoodSeq @@ GoodCode @@ [provision_at |-> Str("tomorrow")]>>)]
    /\ validate_quotation_data("app", call.arg) = IsoCodeError
    /\ outcome = ValueError("Datetime must be in RFC 3339 format (e.g., 2021-01-31T12:30:25Z)")

\* C18: the quotation path never checks container weights or services: a
\* quotation that is otherwise valid and whose container carries a net
\* weight outside 0..35000, a negative tare weight or an unrecognized
\* service type passes validation and is sent as it is, whereas the same
\* container in a booking document is rejected before any request.
C18_QuotationIgnoresWeights ==
    \A c \in UncheckedContainers :
        /\ (InCall("create_price_quotation")
              /\ call.quotation_data = GoodRoute @@ [containers |-> List(<<c>>)])
           => /\ validate_quotation_data(variant, call.quotation_data) = Ok
              /\ Len(sent) = 1
              /\ sent[1].method = "POST"
              /\ sent[1].json = call.quotation_data
        /\ (InCall("create_booking")
              /\ call.booking_data = GoodBooking @@ [containers |-> List(<<c>>)])
           => /\ pc = "done"
              /\ sent = <<>>
              /\ outcome.kind = "ValueError"

\* C18 witness: the booking whose container has the net weight 35001 has
\* been rejected with no request.
C18_Witness ==
    /\ pc = "done"
    /\ call.op = "create_booking"
    /\ call.booking_data =
          GoodBooking @@ [containers |-> List(<<GoodContainer
              @@ [assumed_net_weight |-> Num(35001)]>>)]
    /\ outcome = ValueError("Net weight must be between 0 and 35000 kg")
    /\ sent = <<>>

\* A selection list that is given and not empty.
NonEmptyList(l) == IsList(l) /\ l.list # <<>>

HasBadContainerNumber(ns) ==
    /\ IsList(ns)
    /\ \E i \in 1..Len(ns.list) : ~(IsStr(ns.list[i]) /\ Len(ns.list[i].str) = 11)

HasNegativeSequenceNumber(qs) ==
    /\ IsList(qs)
    /\ \E i \in 1..Len(qs.list) : IsNum(qs.list[i]) /\ qs.list[i].num < 0

\* C19: cancel_containers with a valid job order reference and a supplied
\* if_match issues the DELETE request even when neither container numbers
\* nor sequence numbers are given, the request then carrying no query
\* parameter; a query parameter is present exactly for each selection list
\* that is non-empty; a container number that is not exactly 11 characters
\* long or a negative sequence number rejects the call before the request.
C19_CancelContainers ==
    InCall("cancel_containers")
    => LET ns == call.container_numbers
           qs == call.container_sequence_numbers
       IN  /\ (/\ call.job_order_ref = Str("JO-1")
               /\ Supplied(call.if_match)
               /\ ~NonEmptyList(ns)
               /\ ~NonEmptyList(qs))
              => /\ Len(sent) = 1
                 /\ sent[1].method = "DELETE"
                 /\ sent[1].endpoint = <<"bookings", "JO-1", "containers">>
                 /\ sent[1].params = EmptyDict
           /\ \A i \in 1..Len(sent) :
                 /\ DOMAIN sent[i].params
                       \subseteq {"container_numbers", "container_sequence_numbers"}
                 /\ "container_numbers" \in DOMAIN sent[i].params <=> NonEmptyList(ns)
                 /\ "container_numbers" \in DOMAIN sent[i].params
                       => sent[i].params.container_numbers = ns
                 /\ "container_sequence_numbers" \in DOMAIN sent[i].params
                       <=> NonEmptyList(qs)
                 /\ "container_sequence_numbers" \in DOMAIN sent[i].params
                       => sent[i].params.container_sequence_numbers = qs
           /\ (HasBadContainerNumber(ns) \/ HasNegativeSequenceNumber(qs))
              => /\ pc = "done"
                 /\ sent = <<>>
                 /\ outcome.kind \in {"ValueError", "TypeError"}

\* C19 witness: a cancellation with no container numbers and an empty list
\* of sequence numbers is in flight as a DELETE without query parameters.
C19_Witness ==
    /\ pc = "waiting"
    /\ call.op = "cancel_containers"
    /\ call.container_numbers = Null
    /\ call.container_sequence_numbers = List(<<>>)
    /\ call.if_match = Str("v1")
    /\ sent[1].method = "DELETE"
    /\ sent[1].params = EmptyDict

====
